---- MODULE Spec2Model ----
(***************************************************************************)
(* Smart Quality Cost Monitoring Dashboard (src/app.py).                   *)
(*                                                                         *)
(* The Streamlit script is re-run from top to bottom on every user         *)
(* interaction.  One action of this model is one such run: the page that   *)
(* is rendered, together with the widget event that triggered the run.     *)
(*                                                                         *)
(* A DataFrame is [columns, rows]: columns is the sequence of column       *)
(* labels, rows the sequence of rows.  A row is a function from the        *)
(* columns that hold a value to that value; a column that is missing from  *)
(* the row's domain is a NaN cell.  pandas treats two NaN cells as equal   *)
(* in drop_duplicates, and so does equality of these functions.            *)
(*                                                                         *)
(* A CSV file is [columns, rows] too; a column missing from a row's domain *)
(* is an empty field of that line.                                         *)
(***************************************************************************)
EXTENDS Integers, Sequences, FiniteSets, TLC

VARIABLES
    session_state,   \* st.session_state: keys "data", "fig_kpi", "report"
    files,           \* the working directory: file name -> content
    uploaded_file,   \* the st.file_uploader widget: 0 is None, i is UploadFiles[i]
    ui               \* what the last run rendered: page, event, messages, form, calls

vars == <<session_state, files, uploaded_file, ui>>

-----------------------------------------------------------------------------
(* Bounds *)

\* Largest number of rows the merged table may reach.
MaxRows == 2

-----------------------------------------------------------------------------
(* Program constants *)

DATA_FILE == "quality_data.csv"

kpi_chart_path == "kpi_chart.png"

PDF_FILE == "Monthly_Quality_Report.pdf"

SchemaColumns == <<"Month", "Category", "Cost", "Description">>

month_order ==
    <<"Jan", "Feb", "Mar", "Apr", "May", "Jun",
      "Jul", "Aug", "Sep", "Oct", "Nov", "Dec">>

Categories == <<"Prevention", "Appraisal", "Internal Failure", "External Failure">>

PAGE_UPLOAD == "Upload & Add Data"

PAGE_DASHBOARD == "Dashboard & KPIs"

PAGE_SUGGESTIONS == "AI Suggestions"

PAGE_REPORTS == "Reports"

\* The key strings of the model in the order pandas' groupby(sort=True)
\* yields them (lexicographic order of the labels).
LexOrder ==
    <<"Appraisal", "Apr", "Aug", "Dec", "External Failure", "Feb",
      "Internal Failure", "Jan", "Jul", "Jun", "Mar", "May", "Nov", "Oct",
      "Other", "Prevention", "Sep">>

\* Columns whose cells are text.
TextColumns == {"Month", "Category", "Description"}

\* Field texts pandas.read_csv reads as NaN (its default na_values).
NaStrings == {"", "#N/A", "N/A", "NA", "NULL", "NaN", "None", "n/a", "nan", "null"}

-----------------------------------------------------------------------------
(* Inputs *)

\* Values offered to the "Add Record" form.
FormMonths == {"Feb"}

FormCategories == {"Internal Failure"}

FormCosts == {30}

FormDescriptions == {"", "z"}

\* Files offered to the uploader.
\*  1: the four schema columns, with one line repeated;
\*  2: columns Month, Category, Amount (no Cost, no Description);
\*  3: the four schema columns and an extra column Amount;
\*  4: the four schema columns, with a category outside the four fixed ones.
UploadFiles ==
    << [columns |-> SchemaColumns,
        rows |-> << [Month |-> "Jan", Category |-> "Prevention", Cost |-> 100, Description |-> "x"],
                    [Month |-> "Jan", Category |-> "Prevention", Cost |-> 100, Description |-> "x"] >>],
       [columns |-> <<"Month", "Category", "Amount">>,
        rows |-> << [Month |-> "Jan", Category |-> "Prevention", Amount |-> 5] >>],
       [columns |-> <<"Month", "Category", "Cost", "Description", "Amount">>,
        rows |-> << [Month |-> "Jan", Category |-> "Prevention", Cost |-> 100,
                     Description |-> "x", Amount |-> 7] >>],
       [columns |-> SchemaColumns,
        rows |-> << [Month |-> "Apr", Category |-> "Other", Cost |-> 10, Description |-> "o"] >>] >>

\* Completion texts the LLM may return.
Completions == {"insight ₹"}

\* Contents the data file may have when the first session starts.
InitialDisks ==
    { <<>>,
      [f \in {DATA_FILE} |->
         [columns |-> SchemaColumns,
          rows |-> << [Month |-> "Feb", Category |-> "Internal Failure", Cost |-> 30],
                      [Month |-> "Feb", Category |-> "Internal Failure", Cost |-> 30] >>]] }

-----------------------------------------------------------------------------
(* Dictionaries *)

Put(d, k, v) == [x \in (DOMAIN d) \cup {k} |-> IF x = k THEN v ELSE d[x]]

Range(s) == {s[i] : i \in DOMAIN s}

-----------------------------------------------------------------------------
(* pandas *)

EmptyFrame == [columns |-> SchemaColumns, rows |-> <<>>]

\* df.empty
empty(df) == Len(df.rows) = 0

\* pd.concat([a, b], ignore_index=True): the union of the columns, a's
\* first; a's rows, then b's.  Cells of a column a frame lacks are NaN.
concat(a, b) ==
    [columns |-> a.columns \o SelectSeq(b.columns, LAMBDA c : c \notin Range(a.columns)),
     rows |-> a.rows \o b.rows]

\* drop_duplicates(keep="last"): keep the last of equal rows.
drop_duplicates_keep_last(df) ==
    LET rows == df.rows
        kept == {i \in DOMAIN rows : ~\E j \in (i + 1)..Len(rows) : rows[j] = rows[i]}
        Keep[i \in 0..Len(rows)] ==
            IF i = 0 THEN <<>>
            ELSE IF i \in kept THEN Append(Keep[i - 1], rows[i]) ELSE Keep[i - 1]
    IN [columns |-> df.columns, rows |-> Keep[Len(rows)]]

\* df.drop_duplicates().reset_index(drop=True): keep the first of equal rows.
drop_duplicates(df) ==
    LET rows == df.rows
        Keep[i \in 0..Len(rows)] ==
            IF i = 0 THEN <<>>
            ELSE IF \E j \in 1..(i - 1) : rows[j] = rows[i]
                 THEN Keep[i - 1]
                 ELSE Append(Keep[i - 1], rows[i])
    IN [columns |-> df.columns, rows |-> Keep[Len(rows)]]

\* df.to_csv(path, index=False): a NaN cell and an empty text are both
\* written as an empty field.
to_csv(df) ==
    [columns |-> df.columns,
     rows |-> [i \in DOMAIN df.rows |->
                 LET r == df.rows[i]
                     written == {c \in DOMAIN r : ~(c \in TextColumns /\ r[c] = "")}
                 IN [c \in written |-> r[c]]]]

\* pd.read_csv(path): a field whose text is one of NaStrings is a NaN cell.
read_csv(csv) ==
    [columns |-> csv.columns,
     rows |-> [i \in DOMAIN csv.rows |->
                 LET r == csv.rows[i]
                     valued == {c \in DOMAIN r : ~(c \in TextColumns /\ r[c] \in NaStrings)}
                 IN [c \in valued |-> r[c]]]]

\* Series.sum() of the Cost cells of rows: NaN cells are skipped.
RECURSIVE cost_sum(_)
cost_sum(rows) ==
    IF rows = <<>> THEN 0
    ELSE (IF "Cost" \in DOMAIN Head(rows) THEN Head(rows).Cost ELSE 0) + cost_sum(Tail(rows))

\* df.groupby(key)["Cost"].sum().reset_index(): one row per key value, in
\* the sorted order of the keys; rows whose key is NaN belong to no group.
groupby_cost_sum(df, key) ==
    LET keyed(k) == SelectSeq(df.rows, LAMBDA r : key \in DOMAIN r /\ r[key] = k)
        present == SelectSeq(LexOrder, LAMBDA k : keyed(k) # <<>>)
    IN [i \in DOMAIN present |-> [k \in {key, "Cost"} |->
            IF k = key THEN present[i] ELSE cost_sum(keyed(present[i]))]]

\* summary.loc[summary['Category'] == category, 'Cost'].sum()
category_cost(summary, category) ==
    cost_sum(SelectSeq(summary, LAMBDA s : s["Category"] = category))

\* frame.tail(n)
tail(s, n) == IF Len(s) <= n THEN s ELSE SubSeq(s, Len(s) - n + 1, Len(s))

-----------------------------------------------------------------------------
(* Aggregations of the pages *)

\* Page 2: summary, prevention .. external, COGQ, COPQ, total.
DashboardKpis(df) ==
    LET summary == groupby_cost_sum(df, "Category")
        prevention == category_cost(summary, "Prevention")
        appraisal == category_cost(summary, "Appraisal")
        internal == category_cost(summary, "Internal Failure")
        external == category_cost(summary, "External Failure")
        COGQ == prevention + appraisal
        COPQ == internal + external
    IN [prevention |-> prevention, appraisal |-> appraisal,
        internal |-> internal, external |-> external,
        COGQ |-> COGQ, COPQ |-> COPQ, total |-> COGQ + COPQ]

\* Page 2: the monthly trend, re-indexed by month_order, months without a
\* group dropped.
monthly(df) ==
    LET grouped == groupby_cost_sum(df, "Month")
        reindexed == SelectSeq(month_order,
                               LAMBDA m : \E i \in DOMAIN grouped : grouped[i]["Month"] = m)
    IN [i \in DOMAIN reindexed |->
          [k \in {"Month", "Cost"} |->
             IF k = "Month" THEN reindexed[i]
             ELSE cost_sum(SelectSeq(grouped, LAMBDA g : g["Month"] = reindexed[i]))]]

\* Page 3: summary_text, the four category sums of the prompt.
SuggestionSummary(df) ==
    LET summary == groupby_cost_sum(df, "Category")
    IN [c \in Range(Categories) |-> category_cost(summary, c)]

\* COPQ with the internal-failure sum taken twice.
ReportKpis_internal_twice(df) ==
    LET summary == groupby_cost_sum(df, "Category")
        COGQ == category_cost(summary, "Prevention") + category_cost(summary, "Appraisal")
        COPQ == category_cost(summary, "Internal Failure")
                + category_cost(summary, "Internal Failure")
    IN [COGQ |-> COGQ, COPQ |-> COPQ, total_cost |-> COGQ + COPQ]

\* Page 4: summary, COGQ, COPQ, total_cost.
ReportKpis(df) ==
    LET summary == groupby_cost_sum(df, "Category")
        COGQ == category_cost(summary, "Prevention") + category_cost(summary, "Appraisal")
        COPQ == category_cost(summary, "Internal Failure")
                + category_cost(summary, "External Failure")
    IN [COGQ |-> COGQ, COPQ |-> COPQ, total_cost |-> COGQ + COPQ]

\* Page 4: available_months.
available_months(df) ==
    SelectSeq(month_order,
              LAMBDA m : \E i \in DOMAIN df.rows :
                            "Month" \in DOMAIN df.rows[i] /\ df.rows[i]["Month"] = m)

\* Page 4: month_trend, the last three groups of the frame grouped by Month.
month_trend(df) == tail(groupby_cost_sum(df, "Month"), 3)

\* Page 4: the data embedded in summary_text, and so in the prompt.
ReportSummary(df, selected_month) ==
    LET month_data == SelectSeq(df.rows,
                                LAMBDA r : "Month" \in DOMAIN r /\ r["Month"] = selected_month)
        kpis == ReportKpis(df)
    IN [selected_month |-> selected_month,
        month_total |-> cost_sum(month_data),
        month_trend |-> month_trend(df),
        COGQ |-> kpis.COGQ, COPQ |-> kpis.COPQ, total_cost |-> kpis.total_cost]

\* text.replace("₹", "Rs.") on the texts of the model.
replace_rupee(text) == IF text = "insight ₹" THEN "insight Rs." ELSE text

\* The exception client.chat.completions.create raises.
APIError == "APIError"

-----------------------------------------------------------------------------
(* State *)

\* Lines 20-24: the table of a new session.
LoadData(disk) ==
    IF DATA_FILE \in DOMAIN disk THEN read_csv(disk[DATA_FILE]) ELSE EmptyFrame

\* What a run shows: the page, the widget event that caused the run, the
\* messages (st.success, st.warning, st.error, the rendered texts), the
\* submitted form entry, and the LLM calls made (prompt and outcome).
Rendered(page, event, messages, form, calls) ==
    [page |-> page, event |-> event, messages |-> messages, form |-> form, calls |-> calls]

Init ==
    /\ files \in InitialDisks
    /\ session_state = [k \in {"data"} |-> LoadData(files)]
    /\ uploaded_file = 0
    /\ ui = Rendered(PAGE_UPLOAD, "start", {}, <<>>, <<>>)

\* A new browser session: st.session_state starts empty, the files stay.
NewSession ==
    /\ session_state' = [k \in {"data"} |-> LoadData(files)]
    /\ uploaded_file' = 0
    /\ ui' = Rendered(PAGE_UPLOAD, "start", {}, <<>>, <<>>)
    /\ UNCHANGED files

-----------------------------------------------------------------------------
(* Page 1: upload and add *)

\* Lines 98-104 on the session and the files.
MergeUpload(ss, disk, uploaded) ==
    LET uploaded_df == read_csv(uploaded)
        df == drop_duplicates(concat(ss["data"], uploaded_df))
    IN [ss |-> Put(ss, "data", df), disk |-> Put(disk, DATA_FILE, to_csv(df))]

\* The add-record step with both df.to_csv calls left out.
AppendEntry_unsaved(ss, disk, month, category, cost, description) ==
    LET new_entry == [columns |-> SchemaColumns,
                      rows |-> << [Month |-> month, Category |-> category,
                                   Cost |-> cost, Description |-> description] >>]
        df == drop_duplicates(concat(ss["data"], new_entry))
    IN [ss |-> Put(ss, "data", df), disk |-> disk]

\* Lines 118-127 on the session and the files.
AppendEntry(ss, disk, month, category, cost, description) ==
    LET new_entry == [columns |-> SchemaColumns,
                      rows |-> << [Month |-> month, Category |-> category,
                                   Cost |-> cost, Description |-> description] >>]
        df == drop_duplicates(concat(ss["data"], new_entry))
    IN [ss |-> Put(ss, "data", df), disk |-> Put(disk, DATA_FILE, to_csv(df))]

\* The run after a file is chosen in the uploader.
UploadFile(i) ==
    LET merged == MergeUpload(session_state, files, UploadFiles[i])
    IN /\ Len(merged.ss["data"].rows) <= MaxRows
       /\ session_state' = merged.ss
       /\ files' = merged.disk
       /\ uploaded_file' = i
       /\ ui' = Rendered(PAGE_UPLOAD, "upload", {"File uploaded and merged successfully!"},
                         <<>>, <<>>)

\* The run after "Add Record" is pressed; a file still held by the uploader
\* is merged again first.
AddRecord(month, category, cost, description) ==
    LET merged == IF uploaded_file # 0
                  THEN MergeUpload(session_state, files, UploadFiles[uploaded_file])
                  ELSE [ss |-> session_state, disk |-> files]
        added == AppendEntry(merged.ss, merged.disk, month, category, cost, description)
    IN /\ Len(added.ss["data"].rows) <= MaxRows
       /\ session_state' = added.ss
       /\ files' = added.disk
       /\ UNCHANGED uploaded_file
       /\ ui' = Rendered(PAGE_UPLOAD, "add",
                         (IF uploaded_file # 0
                          THEN {"File uploaded and merged successfully!"} ELSE {})
                         \cup {"Record added successfully!"},
                         <<[month |-> month, category |-> category,
                            cost |-> cost, description |-> description]>>, <<>>)

\* The run that shows page 1 with an empty uploader and no submission.
OpenUploadPage ==
    /\ uploaded_file' = 0
    /\ ui' = Rendered(PAGE_UPLOAD, "open", {}, <<>>, <<>>)
    /\ UNCHANGED <<session_state, files>>

-----------------------------------------------------------------------------
(* Page 2: dashboard *)

ViewDashboard ==
    LET df == session_state["data"]
        kpis == DashboardKpis(df)
        fig_kpi == [COGQ |-> kpis.COGQ, COPQ |-> kpis.COPQ]
    IN /\ session_state' =
            IF ~empty(df) THEN Put(session_state, "fig_kpi", fig_kpi) ELSE session_state
       /\ ui' = Rendered(PAGE_DASHBOARD, "open",
                         IF ~empty(df) THEN {}
                         ELSE {"No data available. Please upload or add some records first."},
                         <<>>, <<>>)
       /\ uploaded_file' = 0
       /\ UNCHANGED files

-----------------------------------------------------------------------------
(* Page 3: AI suggestions *)

OpenSuggestionsPage ==
    /\ ui' = Rendered(PAGE_SUGGESTIONS, "open",
                      IF empty(session_state["data"])
                      THEN {"Please upload or add data first."} ELSE {}, <<>>, <<>>)
    /\ uploaded_file' = 0
    /\ UNCHANGED <<session_state, files>>

GenerateSuggestions(outcome) ==
    LET df == session_state["data"]
        prompt == [kind |-> "suggestions", summary_text |-> SuggestionSummary(df)]
    IN /\ ~empty(df)
       /\ ui' = Rendered(PAGE_SUGGESTIONS, "suggestions",
                         IF outcome = APIError THEN {"Error: APIError"} ELSE {outcome},
                         <<>>, <<[prompt |-> prompt, outcome |-> outcome]>>)
       /\ uploaded_file' = 0
       /\ UNCHANGED <<session_state, files>>

-----------------------------------------------------------------------------
(* Page 4: reports *)

OpenReportsPage ==
    /\ ui' = Rendered(PAGE_REPORTS, "open",
                      IF empty(session_state["data"])
                      THEN {"Please upload or add data first."} ELSE {}, <<>>, <<>>)
    /\ uploaded_file' = 0
    /\ UNCHANGED <<session_state, files>>

\* The except branch storing the error text as the report.
StoreReport_error_text(ss, outcome) ==
    IF outcome = APIError
    THEN Put(ss, "report", "Error generating report: APIError")
    ELSE Put(ss, "report", outcome)

\* Lines 273-283 on the session.
StoreReport(ss, outcome) ==
    IF outcome = APIError THEN ss ELSE Put(ss, "report", outcome)

GenerateMonthlyReport(selected_month, outcome) ==
    LET df == session_state["data"]
        prompt == [kind |-> "report", summary_text |-> ReportSummary(df, selected_month)]
    IN /\ ~empty(df)
       /\ selected_month \in Range(available_months(df))
       /\ session_state' = StoreReport(session_state, outcome)
       /\ ui' = Rendered(PAGE_REPORTS, "report",
                         IF outcome = APIError
                         THEN {"Error generating report: APIError"}
                         ELSE {"Monthly report generated successfully!", outcome},
                         <<>>, <<[prompt |-> prompt, outcome |-> outcome]>>)
       /\ uploaded_file' = 0
       /\ UNCHANGED files

\* The export without the st.stop() of the missing-chart branch: the PDF is
\* assembled although no chart was cached.
ExportPdf_unchecked_chart(ss, disk) ==
    LET df == ss["data"]
        kpis == ReportKpis(df)
        ss1 == IF "report" \in DOMAIN ss
               THEN Put(ss, "report", replace_rupee(ss["report"])) ELSE ss
    IN IF "report" \notin DOMAIN ss1
       THEN [ss |-> ss1, disk |-> disk, messages |-> {"Generate the report first."}]
       ELSE LET disk1 == IF "fig_kpi" \in DOMAIN ss1
                         THEN Put(disk, kpi_chart_path, ss1["fig_kpi"]) ELSE disk
                pdf == [COGQ |-> kpis.COGQ, COPQ |-> kpis.COPQ,
                        total_cost |-> kpis.total_cost,
                        chart |-> IF kpi_chart_path \in DOMAIN disk1
                                  THEN disk1[kpi_chart_path]
                                  ELSE [COGQ |-> 0, COPQ |-> 0],
                        insights |-> replace_rupee(ss1["report"])]
            IN [ss |-> ss1, disk |-> Put(disk1, PDF_FILE, pdf),
                messages |-> (IF "fig_kpi" \in DOMAIN ss1 THEN {}
                              ELSE {"Please visit the Dashboard page first to generate KPI chart."})
                             \cup {"Download PDF Report"}]

\* Lines 287-338 on the session and the files.
ExportPdf(ss, disk) ==
    LET df == ss["data"]
        kpis == ReportKpis(df)
        ss1 == IF "report" \in DOMAIN ss
               THEN Put(ss, "report", replace_rupee(ss["report"])) ELSE ss
    IN IF "report" \notin DOMAIN ss1
       THEN [ss |-> ss1, disk |-> disk, messages |-> {"Generate the report first."}]
       ELSE IF "fig_kpi" \notin DOMAIN ss1
       THEN [ss |-> ss1, disk |-> disk,
             messages |-> {"Please visit the Dashboard page first to generate KPI chart."}]
       ELSE LET disk1 == Put(disk, kpi_chart_path, ss1["fig_kpi"])
                pdf == [COGQ |-> kpis.COGQ, COPQ |-> kpis.COPQ,
                        total_cost |-> kpis.total_cost,
                        chart |-> disk1[kpi_chart_path],
                        insights |-> replace_rupee(ss1["report"])]
            IN [ss |-> ss1, disk |-> Put(disk1, PDF_FILE, pdf),
                messages |-> {"Download PDF Report"}]

DownloadPdfReport ==
    LET done == ExportPdf(session_state, files)
    IN /\ ~empty(session_state["data"])
       /\ session_state' = done.ss
       /\ files' = done.disk
       /\ ui' = Rendered(PAGE_REPORTS, "export", done.messages, <<>>, <<>>)
       /\ uploaded_file' = 0

-----------------------------------------------------------------------------
(* Specification *)

Next ==
    \/ NewSession
    \/ \E i \in DOMAIN UploadFiles : UploadFile(i)
    \/ \E month \in FormMonths, category \in FormCategories,
          cost \in FormCosts, description \in FormDescriptions :
          AddRecord(month, category, cost, description)
    \/ OpenUploadPage
    \/ ViewDashboard
    \/ OpenSuggestionsPage
    \/ \E outcome \in Completions \cup {APIError} : GenerateSuggestions(outcome)
    \/ OpenReportsPage
    \/ \E selected_month \in Range(available_months(session_state["data"])),
          outcome \in Completions \cup {APIError} :
          GenerateMonthlyReport(selected_month, outcome)
    \/ DownloadPdfReport

Spec == Init /\ [][Next]_vars

-----------------------------------------------------------------------------
(* Properties *)

data == session_state["data"]

\* The event of the last run is a mutation of the table.
IsMutation(event) == event \in {"upload", "add"}

\* Two rows agree on Month, Category, Cost and Description.
SameFourFields(r1, r2) ==
    \A c \in Range(SchemaColumns) :
        /\ (c \in DOMAIN r1) <=> (c \in DOMAIN r2)
        /\ c \in DOMAIN r1 => r1[c] = r2[c]

NoFourFieldDuplicates(df) ==
    \A i, j \in DOMAIN df.rows : i # j => ~SameFourFields(df.rows[i], df.rows[j])

\* C1: in a session, once an upload merge or an add record has completed,
\* the table in session state never holds two rows that are equal on
\* Month, Category, Cost and Description: every mutation establishes this,
\* and every later run of the session keeps it.
C1_NoFourFieldDuplicatesAfterMutation ==
    [][(IsMutation(ui'.event) \/ (NoFourFieldDuplicates(data) /\ ui'.event # "start"))
         => NoFourFieldDuplicates(data')]_vars

\* The first position of row r in rows.
FirstIndex(rows, r) == CHOOSE i \in DOMAIN rows : rows[i] = r /\ \A j \in 1..(i - 1) : rows[j] # r

\* result is the de-duplicated union of old and new, first occurrences in
\* their order.
IsDedupUnion(old, new, result) ==
    LET all == old \o new
    IN /\ \A r \in Range(all) : Cardinality({i \in DOMAIN result : result[i] = r}) = 1
       /\ \A i \in DOMAIN result : result[i] \in Range(all)
       /\ \A i, j \in DOMAIN result :
              i < j => FirstIndex(all, result[i]) < FirstIndex(all, result[j])

\* The rows a run of page 1 brings in: the lines of the chosen file, or the
\* submitted form entry.
NewRows(event, chosen, form) ==
    IF event = "upload" THEN read_csv(UploadFiles[chosen]).rows
    ELSE << [Month |-> form[1].month, Category |-> form[1].category,
             Cost |-> form[1].cost, Description |-> form[1].description] >>

\* C2: after an upload merge and after an add record, the table is the
\* de-duplicated union of the table before and the new rows: every row of
\* either appears exactly once, nothing else appears, and the rows stand in
\* the order of their first occurrence in (existing rows, then new rows).
C2_DedupUnion ==
    [][IsMutation(ui'.event)
         => IsDedupUnion(data.rows, NewRows(ui'.event, uploaded_file', ui'.form), data'.rows)]_vars

\* C2 witness: an add record whose entry was already in a table of two rows.
C2_Witness ==
    /\ ui.event = "add"
    /\ Len(data.rows) = 2
    /\ \E i \in DOMAIN data.rows :
          /\ i < Len(data.rows)
          /\ data.rows[i] = NewRows("add", 0, ui.form)[1]

\* The data file holds exactly what to_csv writes for the table in memory.
Persisted ==
    /\ DATA_FILE \in DOMAIN files
    /\ files[DATA_FILE] = to_csv(data)

\* C3: every upload merge and every add record leaves the data file equal
\* to the CSV serialisation of the table in session state, and every later
\* run of the session keeps them equal.
C3_FileEqualsTable ==
    [][(IsMutation(ui'.event) \/ (Persisted /\ ui'.event # "start")) => Persisted']_vars

\* C3 witness: an add record has rewritten a data file that existed before
\* the session, and the table has two rows.
C3_Witness ==
    /\ ui.event = "add"
    /\ Len(data.rows) = 2
    /\ Persisted
    /\ Len(files[DATA_FILE].rows) = 2

\* The file has the four schema columns.
HasSchemaColumns(csv) == Range(SchemaColumns) \subseteq Range(csv.columns)

\* C4: an upload of a file that lacks one of the four schema columns is
\* refused: the table in session state and the files are left as they were.
C4_SchemaErrorAbortsMerge ==
    [][(ui'.event = "upload" /\ ~HasSchemaColumns(UploadFiles[uploaded_file']))
         => (session_state' = session_state /\ files' = files)]_vars

\* The last run called the LLM and the call failed.
CallFailed(rendered) ==
    /\ rendered.calls # <<>>
    /\ rendered.calls[1].outcome = APIError

\* C5: after a failed "Generate Monthly Report" no insight text is cached.
C5_NoStaleReportAfterFailure ==
    (ui.event = "report" /\ CallFailed(ui)) => "report" \notin DOMAIN session_state

\* C6: a "Download PDF Report" pressed while the insight text or the KPI
\* chart is missing writes no file and shows a directive; the download is
\* offered, and the PDF written, only when both exist.
C6_ExportNeedsPrerequisites ==
    [][ui'.event = "export"
         => IF "report" \in DOMAIN session_state /\ "fig_kpi" \in DOMAIN session_state
            THEN /\ PDF_FILE \in DOMAIN files'
                 /\ ui'.messages = {"Download PDF Report"}
            ELSE /\ files' = files
                 /\ ui'.messages # {}
                 /\ "Download PDF Report" \notin ui'.messages]_vars

\* C6 witness: an export refused for the missing chart although the report
\* text exists, with no PDF on disk.
C6_Witness ==
    /\ ui.event = "export"
    /\ "report" \in DOMAIN session_state
    /\ "fig_kpi" \notin DOMAIN session_state
    /\ PDF_FILE \notin DOMAIN files

\* C7: a failed LLM call, for suggestions or for the report, shows an error
\* and leaves the session state (table, cached chart, cached report) and
\* the files as they were.
C7_FailedCallChangesNothing ==
    [][(ui'.event \in {"suggestions", "report"} /\ CallFailed(ui'))
         => /\ session_state' = session_state
            /\ files' = files
            /\ \E m \in ui'.messages : m \in {"Error: APIError", "Error generating report: APIError"}]_vars

\* C7 witness: a failed report generation in a session that holds a table,
\* a data file and an earlier report.
C7_Witness ==
    /\ ui.event = "report"
    /\ CallFailed(ui)
    /\ "report" \in DOMAIN session_state
    /\ DATA_FILE \in DOMAIN files

\* C8: the trend embedded in the report prompt is the last three entries of
\* the monthly trend in calendar order.
C8_RecentTrendInCalendarOrder ==
    ui.event = "report" => ui.calls[1].prompt.summary_text.month_trend = tail(monthly(data), 3)

\* Sum of Cost over the rows that satisfy P.
CostWhere(rows, P(_)) ==
    LET F[i \in 0..Len(rows)] ==
            IF i = 0 THEN 0
            ELSE F[i - 1] + (IF P(rows[i]) THEN rows[i]["Cost"] ELSE 0)
    IN F[Len(rows)]

\* A valid record table: every row has a calendar month, one of the four
\* categories and a cost >= 0.
ValidTable(df) ==
    \A i \in DOMAIN df.rows :
        LET r == df.rows[i]
        IN /\ {"Month", "Category", "Cost"} \subseteq DOMAIN r
           /\ r["Month"] \in Range(month_order)
           /\ r["Category"] \in Range(Categories)
           /\ r["Cost"] >= 0

InCategory(c, r) == r["Category"] = c

\* C9: for a valid table each of the four category sums is the sum of the
\* costs of that category's rows (0 without rows) and is >= 0, the four add
\* up to the sum of Cost over all rows, and COGQ + COPQ = total = that sum,
\* on the dashboard, in the suggestion prompt and on the reports page.
C9_CategorySumsAddUp ==
    ValidTable(data) =>
        LET everything == CostWhere(data.rows, LAMBDA r : TRUE)
            of(c) == CostWhere(data.rows, LAMBDA r : InCategory(c, r))
            d == DashboardKpis(data)
            p == SuggestionSummary(data)
            k == ReportKpis(data)
        IN /\ d.prevention = of("Prevention") /\ d.appraisal = of("Appraisal")
           /\ d.internal = of("Internal Failure") /\ d.external = of("External Failure")
           /\ \A c \in Range(Categories) : p[c] = of(c) /\ p[c] >= 0
           /\ d.prevention + d.appraisal + d.internal + d.external = everything
           /\ d.COGQ = of("Prevention") + of("Appraisal")
           /\ d.COPQ = of("Internal Failure") + of("External Failure")
           /\ d.COGQ + d.COPQ = d.total /\ d.total = everything
           /\ k.COGQ = d.COGQ /\ k.COPQ = d.COPQ
           /\ k.COGQ + k.COPQ = k.total_cost /\ k.total_cost = everything

\* C9 witness: a valid table with good-quality and poor-quality costs.
C9_Witness ==
    /\ ValidTable(data)
    /\ Len(data.rows) >= 2
    /\ ReportKpis(data).COGQ > 0
    /\ ReportKpis(data).COPQ > 0

\* C10: the chart embedded in the exported PDF shows the COGQ and COPQ that
\* the PDF prints.
C10_ChartMatchesPrintedKpis ==
    PDF_FILE \in DOMAIN files =>
        /\ files[PDF_FILE].chart.COGQ = files[PDF_FILE].COGQ
        /\ files[PDF_FILE].chart.COPQ = files[PDF_FILE].COPQ

====
